---- MODULE Spec2Model ----
(***************************************************************************)
(* Bolted-joint domain model of classes.py: Bolt, Washer, Member and       *)
(* BoltedJoint, with the reference data loaded by resources.py.            *)
(*                                                                         *)
(* Number encoding.  The Python code works on floats; the model keeps the  *)
(* same quantities as exact integers in fixed units:                       *)
(*   lengths (d, di, do, t, thickness, clearance_hole)  1e-3 in            *)
(*   areas (A_t, A_m)                                   1e-4 in^2          *)
(*   elastic modulus E                                  1e9 Pa             *)
(* Quotients are kept exact as decimal fractions (n/d) * 10^e, so that no  *)
(* rounding enters a comparison.                                           *)
(***************************************************************************)
EXTENDS Integers, Sequences, FiniteSets, TLC

VARIABLES
    BOLT_SIZES,   \* classes.py:11  module-level dict from bolt_sizes()
    MATERIALS,    \* classes.py:12  module-level dict from materials()
    id_counter,   \* classes.py:101 Member._id_counter
    bolt,         \* the caller's reference to the last Bolt built (<<>> = none)
    washer,       \* the caller's reference to the last Washer built
    members,      \* the Members built so far, in construction order
    joint,        \* the caller's reference to the last BoltedJoint built
    ret,          \* outcome of the last call: [op, args, exc, val]
    threads       \* per thread: where it stands inside Member.__init__

vars == <<BOLT_SIZES, MATERIALS, id_counter, bolt, washer, members, joint, ret,
          threads>>

(***************************************************************************)
(* Bounds of the model.                                                    *)
(***************************************************************************)
MaxMembers == 2        \* Member constructions in one run
MaxJointMembers == 2   \* length of the members list handed to BoltedJoint
MaxJointWashers == 1   \* length of the washers list handed to BoltedJoint
NumThreads == 2        \* threads that construct a Member concurrently

(***************************************************************************)
(* Reference data.  data/bolt_sizes.json and data/materials.json are read  *)
(* by resources.py and are not part of the source tree; the entries below  *)
(* are representative UNC/UNF rows in the shape classes.py indexes them:   *)
(* BOLT_SIZES[size]['d'], BOLT_SIZES[size]['tpi'][key]['A_t' | 'A_m'] with *)
(* string keys, and MATERIALS[name]['E'].  A string is a sequence of       *)
(* one-character strings so that str() and int() can be modelled.          *)
(***************************************************************************)
BoltSizesData ==
    ("#10" :> [d |-> 190,
               tpi |-> (<<"2", "4">> :> [A_t |-> 175, A_m |-> 145]) @@
                       (<<"3", "2">> :> [A_t |-> 200, A_m |-> 175])]) @@
    ("1/4" :> [d |-> 250,
               tpi |-> (<<"2", "0">> :> [A_t |-> 318, A_m |-> 269]) @@
                       (<<"2", "8">> :> [A_t |-> 364, A_m |-> 326])])

MaterialsData ==
    ("A-286 Alloy" :> [E |-> 201]) @@
    ("carbon steel" :> [E |-> 200])

(***************************************************************************)
(* Python's str() and int() on the values passed as tpi.  A tpi argument   *)
(* is [kind |-> "int", n |-> 24, s |-> <<>>] or                            *)
(* [kind |-> "str", n |-> 0, s |-> <<"2", "4">>].                          *)
(***************************************************************************)
DigitChars == <<"0", "1", "2", "3", "4", "5", "6", "7", "8", "9">>

RECURSIVE Digits(_)
Digits(n) ==
    IF n < 10 THEN <<DigitChars[n + 1]>>
    ELSE Digits(n \div 10) \o <<DigitChars[(n % 10) + 1]>>

\* str(tpi): decimal digits of an int, the string itself for a str
py_str(tpi) ==
    IF tpi.kind = "int"
    THEN (IF tpi.n < 0 THEN <<"-">> \o Digits(-tpi.n) ELSE Digits(tpi.n))
    ELSE tpi.s

DigitValue(c) == (CHOOSE i \in 1..10 : DigitChars[i] = c) - 1

RECURSIVE ParseDigits(_)
ParseDigits(s) ==
    IF s = <<>> THEN 0
    ELSE 10 * ParseDigits(SubSeq(s, 1, Len(s) - 1)) + DigitValue(s[Len(s)])

\* int(tpi_key), for the digit strings that are keys of the size table
py_int(s) == ParseDigits(s)

IntTpi(n) == [kind |-> "int", n |-> n, s |-> <<>>]
StrTpi(s) == [kind |-> "str", n |-> 0, s |-> s]

(***************************************************************************)
(* Outcome of a call: the exception raised ("None" when it returns) and    *)
(* the value returned, <<v>>, or <<>> when nothing is returned.            *)
(***************************************************************************)
Raised(e) == [exc |-> e, val |-> <<>>]
Returned(v) == [exc |-> "None", val |-> <<v>>]

(***************************************************************************)
(* Bolt.__init__ (classes.py:28-52).                                       *)
(***************************************************************************)
Bolt_new_NoTpiCheck(size, tpi, material, sizes) ==
    LET tpi_key == py_str(tpi)
    IN  IF size \notin DOMAIN sizes THEN Raised("KeyError")
        ELSE IF tpi_key \notin DOMAIN sizes[size].tpi THEN Raised("KeyError")
        ELSE Returned([size |-> size, tpi |-> py_int(tpi_key),
                       material |-> material,
                       d |-> sizes[size].d,
                       A_t |-> sizes[size].tpi[tpi_key].A_t,
                       A_m |-> sizes[size].tpi[tpi_key].A_m])

Bolt_new_SwappedAreas(size, tpi, material, sizes) ==
    LET tpi_key == py_str(tpi)
    IN  IF size \notin DOMAIN sizes THEN Raised("KeyError")
        ELSE IF tpi_key \notin DOMAIN sizes[size].tpi THEN Raised("ValueError")
        ELSE Returned([size |-> size, tpi |-> py_int(tpi_key),
                       material |-> material,
                       d |-> sizes[size].d,
                       A_t |-> sizes[size].tpi[tpi_key].A_m,
                       A_m |-> sizes[size].tpi[tpi_key].A_t])

Bolt_new(size, tpi, material, sizes) ==
    LET tpi_key == py_str(tpi)                              \* line 40
    IN  IF size \notin DOMAIN sizes THEN Raised("KeyError") \* line 43, BOLT_SIZES[size]
        ELSE IF tpi_key \notin DOMAIN sizes[size].tpi       \* line 43
             THEN Raised("ValueError")                      \* line 44
        ELSE Returned([size |-> size,                       \* line 46
                       tpi |-> py_int(tpi_key),             \* line 47
                       material |-> material,               \* line 48
                       d |-> sizes[size].d,                 \* line 50
                       A_t |-> sizes[size].tpi[tpi_key].A_t,    \* line 51
                       A_m |-> sizes[size].tpi[tpi_key].A_m])   \* line 52

(***************************************************************************)
(* Washer.__init__ (classes.py:70-83): stores its four arguments.          *)
(***************************************************************************)
Washer_new(di, do, t, material) ==
    Returned([di |-> di, do |-> do, t |-> t, material |-> material])

(***************************************************************************)
(* Member.__init__ (classes.py:103-108).  The counter is incremented on    *)
(* the first line; the new value is the id.  The callers of the model      *)
(* always pass material (the default "steel" of line 103 is not drawn).    *)
(***************************************************************************)
Member_counter_after(counter) == counter + 1                    \* line 104

Member_new(counter, thickness, material) ==
    Returned([id |-> Member_counter_after(counter),             \* line 106
              thickness |-> thickness,                          \* line 107
              material |-> material])                           \* line 108

(***************************************************************************)
(* Arguments the callers of the model draw from.                           *)
(***************************************************************************)
SizeArgs == {"#10", "1/4", "invalid-size"}
TpiArgs == {IntTpi(24), IntTpi(20), IntTpi(-24),
            StrTpi(<<"2", "4">>), StrTpi(<<"0", "2", "4">>)}
MaterialArgs == {"A-286 Alloy", "unobtainium"}
WasherArgs == {<<203, 406, 62>>, <<406, 203, 62>>, <<203, 406, 0>>}
MemberArgs == {<<250, "A-286 Alloy">>, <<375, "A-286 Alloy">>,
               <<0, "A-286 Alloy">>, <<-100, "A-286 Alloy">>,
               <<250, "unobtainium">>}

NoCall == [op |-> "none", args |-> <<>>, exc |-> "None", val |-> <<>>]

Call(op, args, out) == [op |-> op, args |-> args, exc |-> out.exc, val |-> out.val]

(***************************************************************************)
(* A thread inside Member.__init__.  pc names the next thing it does:      *)
(*   "idle"    it has not called Member(...) yet                           *)
(*   "load"    line 104, read Member._id_counter                           *)
(*   "store"   line 104, write the value read plus one                     *)
(*   "assign"  lines 106-108, read the counter into self.id                *)
(*   "done"    the Member is built                                         *)
(* No lock is taken anywhere in classes.py, so another thread may run      *)
(* between any two of these.                                               *)
(***************************************************************************)
Threads == 1..NumThreads

IdleThread == [pc |-> "idle", thickness |-> 0, material |-> "", loaded |-> 0]

NoThreads == [t \in Threads |-> IdleThread]

(***************************************************************************)
(* The constructors as steps of a caller that keeps what it builds.        *)
(***************************************************************************)
Bolt_init(size, tpi, material) ==
    LET out == Bolt_new(size, tpi, material, BOLT_SIZES)
    IN  /\ ret' = Call("Bolt", [size |-> size, tpi |-> tpi, material |-> material], out)
        /\ bolt' = IF out.exc = "None" THEN out.val ELSE bolt
        /\ UNCHANGED <<threads, BOLT_SIZES, MATERIALS, id_counter, washer, members, joint>>

Washer_init(di, do, t, material) ==
    LET out == Washer_new(di, do, t, material)
    IN  /\ ret' = Call("Washer", [di |-> di, do |-> do, t |-> t, material |-> material], out)
        /\ washer' = out.val
        /\ UNCHANGED <<threads, BOLT_SIZES, MATERIALS, id_counter, bolt, members, joint>>

Member_init(thickness, material) ==
    LET out == Member_new(id_counter, thickness, material)
    IN  /\ id_counter < MaxMembers
        /\ id_counter' = Member_counter_after(id_counter)
        /\ ret' = Call("Member", [thickness |-> thickness, material |-> material], out)
        /\ members' = IF out.exc = "None" THEN members \o out.val ELSE members
        /\ UNCHANGED <<threads, BOLT_SIZES, MATERIALS, bolt, washer, joint>>

InitParts ==
    /\ BOLT_SIZES = BoltSizesData
    /\ MATERIALS = MaterialsData
    /\ id_counter = 0
    /\ bolt = <<>>
    /\ washer = <<>>
    /\ members = <<>>
    /\ joint = <<>>
    /\ ret = NoCall
    /\ threads = NoThreads

NextParts ==
    \/ \E size \in SizeArgs, tpi \in TpiArgs, material \in MaterialArgs :
          Bolt_init(size, tpi, material)
    \/ \E w \in WasherArgs : Washer_init(w[1], w[2], w[3], "carbon steel")
    \/ \E m \in MemberArgs : Member_init(m[1], m[2])

SpecParts == InitParts /\ [][NextParts]_vars

(***************************************************************************)
(* Exact decimal fractions (n/d) * 10^e in canonical form: n coprime to    *)
(* 10, d not a multiple of 10, gcd(n, d) = 1; zero is 0/1 * 10^0.  Two     *)
(* fractions are the same number iff they are the same record.             *)
(***************************************************************************)
RECURSIVE GCD(_, _)
GCD(a, b) == IF b = 0 THEN a ELSE GCD(b, a % b)

RECURSIVE Norm(_, _, _)
Norm(n, d, e) ==
    IF n = 0 THEN [n |-> 0, d |-> 1, e |-> 0]
    ELSE IF n % 2 = 0 /\ d % 2 = 0 THEN Norm(n \div 2, d \div 2, e)
    ELSE IF n % 5 = 0 /\ d % 5 = 0 THEN Norm(n \div 5, d \div 5, e)
    ELSE IF n % 2 = 0 THEN Norm(n \div 2, d * 5, e + 1)
    ELSE IF n % 5 = 0 THEN Norm(n \div 5, d * 2, e + 1)
    ELSE IF d % 10 = 0 THEN Norm(n, d \div 10, e - 1)
    ELSE [n |-> n \div GCD(n, d), d |-> d \div GCD(n, d), e |-> e]

Dec(n, e) == Norm(n, 1, e)
DecMul(a, b) == Norm(a.n * b.n, a.d * b.d, a.e + b.e)
DecDiv(a, b) == Norm(a.n * b.d, a.d * b.n, a.e - b.e)

\* the fixed units of the encoding, as decimal fractions
InSqIn(A) == Dec(A, -4)        \* A_t, A_m are kept in 1e-4 in^2
InInches(L) == Dec(L, -3)      \* lengths are kept in 1e-3 in
InPa(E) == Dec(E, 9)           \* E is kept in 1e9 Pa

(***************************************************************************)
(* BoltedJoint (classes.py:113-159).  A joint is a record; axial_load and  *)
(* shear_load are attributes that exist only once apply_loads or           *)
(* remove_loads has run (<<>> = attribute not set).                        *)
(***************************************************************************)
NoneArg == [is_none |-> TRUE, list |-> <<>>]
ListArg(l) == [is_none |-> FALSE, list |-> l]

BoltedJoint_new(b, ms, clearance_hole, ws, preload) ==
    Returned([bolt |-> b,                                            \* line 116
              members |-> ms,                                        \* line 117
              washers |-> IF ~ws.is_none THEN ws.list ELSE <<>>,     \* line 118
              clearance_hole |-> clearance_hole,                     \* line 119
              preload |-> preload,                                   \* line 120
              axial_load |-> <<>>,
              shear_load |-> <<>>])

\* sum(member.thickness for member in self.members): left fold from 0
RECURSIVE sum_thickness(_, _)
sum_thickness(ms, acc) ==
    IF ms = <<>> THEN acc ELSE sum_thickness(Tail(ms), acc + Head(ms).thickness)

\* for washer in self.washers: total_t += washer.t
RECURSIVE add_washers(_, _)
add_washers(ws, total_t) ==
    IF ws = <<>> THEN total_t ELSE add_washers(Tail(ws), total_t + Head(ws).t)

grip_length_NoWashers(j) == sum_thickness(j.members, 0)

grip_length_of(j) ==
    LET total_t == sum_thickness(j.members, 0)          \* line 127
    IN  IF j.washers # <<>>                             \* line 128
        THEN add_washers(j.washers, total_t)            \* lines 129-130
        ELSE total_t                                    \* line 131

bolt_stiffness_of(j, materials) ==
    LET grip_length == grip_length_of(j)                             \* line 151
    IN  IF j.bolt.material \notin DOMAIN materials
        THEN Raised("KeyError")                                      \* line 152
        ELSE LET bolt_E == InPa(materials[j.bolt.material].E)  \* line 152
                 bolt_area == InSqIn(j.bolt.A_t)               \* line 153
             IN  IF grip_length > 0                                  \* line 156
                 THEN Returned(DecDiv(DecMul(bolt_area, bolt_E),
                                      InInches(grip_length)))  \* line 157
                 ELSE Returned(Dec(0, 0))                            \* line 159

(***************************************************************************)
(* The joint operations as steps of a caller holding one joint.  The model *)
(* follows the first joint the caller builds: __init__ reads nothing of an *)
(* earlier joint, so building another one from the same parts leads to no  *)
(* state that building it first does not lead to.                          *)
(***************************************************************************)
BoltedJoint_init(b, ms, clearance_hole, ws, preload) ==
    LET out == BoltedJoint_new(b, ms, clearance_hole, ws, preload)
    IN  /\ joint = <<>>
        /\ ret' = Call("BoltedJoint",
                       [bolt |-> b, members |-> ms, clearance_hole |-> clearance_hole,
                        washers |-> ws, preload |-> preload], out)
        /\ joint' = out.val
        /\ UNCHANGED <<threads, BOLT_SIZES, MATERIALS, id_counter, bolt, washer, members>>

grip_length ==
    /\ joint # <<>>
    /\ ret' = Call("grip_length", <<>>, Returned(grip_length_of(joint[1])))
    /\ UNCHANGED <<threads, BOLT_SIZES, MATERIALS, id_counter, bolt, washer, members, joint>>

apply_preload(preload) ==
    /\ joint # <<>>
    /\ joint' = <<[joint[1] EXCEPT !.preload = preload]>>           \* line 135
    /\ ret' = Call("apply_preload", [preload |-> preload], Raised("None"))
    /\ UNCHANGED <<threads, BOLT_SIZES, MATERIALS, id_counter, bolt, washer, members>>

apply_loads(axial_load, shear_load) ==
    /\ joint # <<>>
    /\ joint' = <<[joint[1] EXCEPT !.axial_load = <<axial_load>>,   \* line 139
                                   !.shear_load = <<shear_load>>]>> \* line 140
    /\ ret' = Call("apply_loads",
                   [axial_load |-> axial_load, shear_load |-> shear_load],
                   Raised("None"))
    /\ UNCHANGED <<threads, BOLT_SIZES, MATERIALS, id_counter, bolt, washer, members>>

remove_loads_ResetsToZero(axial_load, shear_load) ==
    /\ joint # <<>>
    /\ joint' = <<[joint[1] EXCEPT !.axial_load = <<0>>, !.shear_load = <<0>>]>>
    /\ ret' = Call("remove_loads",
                   [axial_load |-> axial_load, shear_load |-> shear_load],
                   Raised("None"))
    /\ UNCHANGED <<threads, BOLT_SIZES, MATERIALS, id_counter, bolt, washer, members>>

remove_loads(axial_load, shear_load) ==
    /\ joint # <<>>
    /\ joint' = <<[joint[1] EXCEPT !.axial_load = <<axial_load>>,   \* line 144
                                   !.shear_load = <<shear_load>>]>> \* line 145
    /\ ret' = Call("remove_loads",
                   [axial_load |-> axial_load, shear_load |-> shear_load],
                   Raised("None"))
    /\ UNCHANGED <<threads, BOLT_SIZES, MATERIALS, id_counter, bolt, washer, members>>

bolt_stiffness ==
    /\ joint # <<>>
    /\ ret' = Call("bolt_stiffness", <<>>, bolt_stiffness_of(joint[1], MATERIALS))
    /\ UNCHANGED <<threads, BOLT_SIZES, MATERIALS, id_counter, bolt, washer, members, joint>>

(***************************************************************************)
(* Parts a caller can have built before it assembles a joint: each is the  *)
(* value a constructor above returns.                                      *)
(***************************************************************************)
JointBoltArgs == {<<"#10", IntTpi(24), "A-286 Alloy">>,
                  <<"1/4", IntTpi(20), "unobtainium">>}
JointWasherArgs == {<<203, 406, 62>>, <<203, 406, 0>>}
JointMemberArgs == {m \in MemberArgs : m[2] = "A-286 Alloy"}

RECURSIVE MemberRuns(_)
MemberRuns(k) ==
    IF k = 0 THEN {<<>>}
    ELSE {ms \o Member_new(Len(ms), m[1], m[2]).val :
             ms \in MemberRuns(k - 1), m \in JointMemberArgs}

\* members[i:j], the contiguous slices of the members built
Slices(ms) ==
    {<<>>} \cup {SubSeq(ms, i, j) : i \in 1..Len(ms), j \in 1..Len(ms)}

Repeat(x, k) == [i \in 1..k |-> x]

DefaultShear == 0      \* apply_loads(shear_load=0), remove_loads(shear_load=0)
DefaultAxial == 0      \* remove_loads(axial_load=0)
DefaultPreload == 0    \* BoltedJoint(preload=0)

InitJoint ==
    /\ BOLT_SIZES = BoltSizesData
    /\ MATERIALS = MaterialsData
    /\ id_counter = MaxMembers
    /\ bolt \in {Bolt_new(a[1], a[2], a[3], BoltSizesData).val : a \in JointBoltArgs}
    /\ washer \in {Washer_new(a[1], a[2], a[3], "carbon steel").val : a \in JointWasherArgs}
    /\ members \in MemberRuns(MaxMembers)
    /\ joint = <<>>
    /\ ret = NoCall
    /\ threads = NoThreads

NextJoint ==
    \/ \E ms \in {s \in Slices(members) : Len(s) <= MaxJointMembers},
          clearance_hole \in {190, 221},
          ws \in {NoneArg} \cup {ListArg(Repeat(washer[1], k)) : k \in 0..MaxJointWashers},
          preload \in {DefaultPreload, -1} :
          BoltedJoint_init(bolt[1], ms, clearance_hole, ws, preload)
    \/ grip_length
    \/ \E preload \in {-1, 5} : apply_preload(preload)
    \/ \E shear_load \in {DefaultShear, 7} : apply_loads(-3, shear_load)
    \/ \E axial_load \in {DefaultAxial, -3}, shear_load \in {DefaultShear, 7} :
          remove_loads(axial_load, shear_load)
    \/ bolt_stiffness

SpecJoint == InitJoint /\ [][NextJoint]_vars

(***************************************************************************)
(* Member.__init__ (classes.py:103-108) run by several threads, one        *)
(* Member each.                                                            *)
(***************************************************************************)
Thread_call(t, thickness, material) ==
    /\ threads[t].pc = "idle"
    /\ threads' = [threads EXCEPT ![t] = [pc |-> "load", thickness |-> thickness,
                                          material |-> material, loaded |-> 0]]
    /\ UNCHANGED <<BOLT_SIZES, MATERIALS, id_counter, bolt, washer, members,
                   joint, ret>>

Thread_load(t) ==                                                \* line 104
    /\ threads[t].pc = "load"
    /\ threads' = [threads EXCEPT ![t].pc = "store", ![t].loaded = id_counter]
    /\ UNCHANGED <<BOLT_SIZES, MATERIALS, id_counter, bolt, washer, members,
                   joint, ret>>

Thread_store(t) ==                                               \* line 104
    /\ threads[t].pc = "store"
    /\ id_counter' = Member_counter_after(threads[t].loaded)
    /\ threads' = [threads EXCEPT ![t].pc = "assign"]
    /\ UNCHANGED <<BOLT_SIZES, MATERIALS, bolt, washer, members, joint, ret>>

Thread_assign(t) ==
    LET self == [id |-> id_counter,                              \* line 106
                 thickness |-> threads[t].thickness,             \* line 107
                 material |-> threads[t].material]               \* line 108
    IN  /\ threads[t].pc = "assign"
        /\ members' = Append(members, self)
        /\ ret' = Call("Member", [thickness |-> self.thickness,
                                  material |-> self.material], Returned(self))
        /\ threads' = [threads EXCEPT ![t].pc = "done"]
        /\ UNCHANGED <<BOLT_SIZES, MATERIALS, id_counter, bolt, washer, joint>>

InitThreads == InitParts

NextThreads ==
    \/ \E t \in Threads, m \in MemberArgs : Thread_call(t, m[1], m[2])
    \/ \E t \in Threads : Thread_load(t)
    \/ \E t \in Threads : Thread_store(t)
    \/ \E t \in Threads : Thread_assign(t)

SpecThreads == InitThreads /\ [][NextThreads]_vars

(***************************************************************************)
(* Properties.                                                             *)
(***************************************************************************)
\* what the specification calls a valid Member: thickness > 0, known material
ValidMember(thickness, material) ==
    thickness > 0 /\ material \in DOMAIN MaterialsData

IsValidMember(m) == ValidMember(m.thickness, m.material)

\* C1: the k-th Member built from valid arguments has identifier k; an
\* attempt with thickness <= 0 or an unknown material consumes no identifier.
C1_KthValidMemberHasIdK ==
    LET valid == SelectSeq(members, IsValidMember)
    IN  \A k \in 1..Len(valid) : valid[k].id = k

\* C2: Member construction raises ValueError and yields no Member when
\* thickness <= 0 or the material is unknown, and succeeds otherwise.
C2_MemberValidated ==
    ret.op = "Member" =>
        IF ValidMember(ret.args.thickness, ret.args.material)
        THEN ret.exc = "None" /\ ret.val # <<>>
        ELSE ret.exc = "ValueError" /\ ret.val = <<>>

\* the construction contract of a joint
ValidJointArgs(a) ==
    /\ Len(a.members) > 0
    /\ a.clearance_hole > a.bolt.d
    /\ a.preload >= 0

\* C3: BoltedJoint construction succeeds iff members is non-empty, the
\* clearance hole is strictly larger than the bolt's nominal diameter and
\* preload >= 0; otherwise it raises ValueError and yields no joint.
C3_JointValidated ==
    ret.op = "BoltedJoint" =>
        IF ValidJointArgs(ret.args)
        THEN ret.exc = "None" /\ ret.val # <<>>
        ELSE ret.exc = "ValueError" /\ ret.val = <<>>

\* C4: on a joint whose preload is valid (>= 0), apply_preload(value) with
\* value < 0 raises ValueError and leaves preload as it was, so preload
\* stays >= 0.
C4_NegativePreloadRejected ==
    [][(/\ joint # <<>>
        /\ joint[1].preload >= 0
        /\ ret'.op = "apply_preload"
        /\ ret'.args.preload < 0)
        => (/\ ret'.exc = "ValueError"
            /\ joint'[1].preload = joint[1].preload
            /\ joint'[1].preload >= 0)]_vars

\* a tpi value is listed under a size: a string is one of the keys, a
\* number is the number one of the keys spells
TpiListed(size, tpi) ==
    IF tpi.kind = "int"
    THEN \E key \in DOMAIN BoltSizesData[size].tpi : ParseDigits(key) = tpi.n
    ELSE tpi.s \in DOMAIN BoltSizesData[size].tpi

\* C5: for a size of the catalog and a tpi not listed under it, given as an
\* int or as a string, Bolt construction raises ValueError and yields no Bolt.
C5_UnlistedTpiRejected ==
    (/\ ret.op = "Bolt"
     /\ ret.args.size \in DOMAIN BoltSizesData
     /\ ~TpiListed(ret.args.size, ret.args.tpi))
    => (ret.exc = "ValueError" /\ ret.val = <<>>)

C5_Witness_UnlistedIntTpi ==
    /\ ret.op = "Bolt"
    /\ ret.args.size = "#10"
    /\ ret.args.tpi = IntTpi(20)
    /\ ~TpiListed(ret.args.size, ret.args.tpi)
    /\ ret.exc = "ValueError"

\* C6: Bolt construction with a size absent from the size catalog or a
\* material absent from the material catalog raises ValueError, so that
\* every Bolt that exists references catalog designations only.
C6_UnknownSizeOrMaterialRejected ==
    /\ (ret.op = "Bolt" /\ (\/ ret.args.size \notin DOMAIN BoltSizesData
                            \/ ret.args.material \notin DOMAIN MaterialsData))
       => (ret.exc = "ValueError" /\ ret.val = <<>>)
    /\ bolt # <<>> => (/\ bolt[1].size \in DOMAIN BoltSizesData
                       /\ bolt[1].material \in DOMAIN MaterialsData)

InDataset(a) ==
    /\ a.size \in DOMAIN BoltSizesData
    /\ TpiListed(a.size, a.tpi)
    /\ a.material \in DOMAIN MaterialsData

\* the key of the catalog row a listed tpi value names
CatalogKey(size, tpi) ==
    CHOOSE key \in DOMAIN BoltSizesData[size].tpi :
        IF tpi.kind = "int" THEN ParseDigits(key) = tpi.n ELSE key = tpi.s

\* C7: for (size, tpi, material) present in the reference data, Bolt
\* construction succeeds and d, A_t and A_m equal the catalog entries of that
\* size and thread; the reference data is left as loaded.
C7_BoltCopiesCatalog ==
    /\ BOLT_SIZES = BoltSizesData
    /\ MATERIALS = MaterialsData
    /\ (ret.op = "Bolt" /\ InDataset(ret.args)) =>
          /\ ret.exc = "None"
          /\ ret.val # <<>>
          /\ LET b == ret.val[1]
                 row == BoltSizesData[ret.args.size]
                 key == CatalogKey(ret.args.size, ret.args.tpi)
             IN  /\ b.d = row.d
                 /\ b.A_t = row.tpi[key].A_t
                 /\ b.A_m = row.tpi[key].A_m
                 /\ bolt = <<b>>

C7_Witness_CatalogBolt ==
    /\ ret.op = "Bolt"
    /\ ret.args = [size |-> "#10", tpi |-> StrTpi(<<"2", "4">>),
                   material |-> "A-286 Alloy"]
    /\ ret.exc = "None"
    /\ ret.val[1].A_t = 175
    /\ ret.val[1].tpi = 24

\* the sum of a sequence of numbers, taken from its end
RECURSIVE Total(_)
Total(xs) ==
    IF xs = <<>> THEN 0
    ELSE Total(SubSeq(xs, 1, Len(xs) - 1)) + xs[Len(xs)]

Thicknesses(j) ==
    [i \in 1..Len(j.members) |-> j.members[i].thickness] \o
    [i \in 1..Len(j.washers) |-> j.washers[i].t]

\* C8: for a joint with a non-empty member list, grip_length() is the sum of
\* the member thicknesses plus the sum of the washer thicknesses (washers
\* given, empty or omitted); one more member of positive thickness makes it
\* strictly larger; preload and applied loads do not enter it.
C8_GripLengthIsSum ==
    (joint # <<>> /\ Len(joint[1].members) > 0) =>
        LET j == joint[1]
        IN  /\ ret.op = "grip_length" =>
                  (ret.exc = "None" /\ ret.val = <<Total(Thicknesses(j))>>)
            /\ grip_length_of(j) = Total(Thicknesses(j))
            /\ \A m \in {members[i] : i \in 1..Len(members)} :
                  m.thickness > 0 =>
                     grip_length_of([j EXCEPT !.members = Append(@, m)])
                        > grip_length_of(j)
            /\ \A p \in {-1, 0, 5}, a \in {<<>>, <<-3>>, <<7>>} :
                  grip_length_of([j EXCEPT !.preload = p, !.axial_load = a,
                                           !.shear_load = a])
                     = grip_length_of(j)

C8_Witness_MembersAndWasher ==
    /\ joint # <<>>
    /\ ret.op = "grip_length"
    /\ Len(joint[1].members) = 2
    /\ joint[1].members[1].thickness = 250
    /\ joint[1].members[2].thickness = 375
    /\ Len(joint[1].washers) = 1
    /\ joint[1].washers[1].t = 62
    /\ ret.val = <<687>>

\* the conversion factors of the specification
SqInToSqM == Dec(64516, -8)    \* 1 in^2 = 6.4516e-4 m^2
InToM == Dec(254, -4)          \* 1 in = 2.54e-2 m

\* C9: for grip length L > 0, bolt_stiffness() returns (E * A_t_m2) / L_m
\* with A_t_m2 = A_t * 6.4516e-4 and L_m = L * 0.0254.
C9_StiffnessInSIUnits ==
    (/\ ret.op = "bolt_stiffness"
     /\ joint # <<>>
     /\ joint[1].bolt.material \in DOMAIN MaterialsData
     /\ grip_length_of(joint[1]) > 0)
    => LET j == joint[1]
           E == InPa(MaterialsData[j.bolt.material].E)
           A_t_m2 == DecMul(InSqIn(j.bolt.A_t), SqInToSqM)
           L_m == DecMul(InInches(grip_length_of(j)), InToM)
       IN  ret.exc = "None" /\ ret.val = <<DecDiv(DecMul(E, A_t_m2), L_m)>>

\* C10: with grip length zero, bolt_stiffness() raises a division-by-zero /
\* domain error and returns no number.
C10_ZeroGripRaises ==
    (/\ ret.op = "bolt_stiffness"
     /\ joint # <<>>
     /\ joint[1].bolt.material \in DOMAIN MaterialsData
     /\ grip_length_of(joint[1]) = 0)
    => (ret.exc = "ZeroDivisionError" /\ ret.val = <<>>)

\* what the specification calls a valid Washer
ValidWasher(di, do, t) == di < do /\ t > 0

\* C11: Washer construction raises ValueError when di >= do or t <= 0, so
\* every Washer that exists has di < do and t > 0.
C11_WasherValidated ==
    /\ ret.op = "Washer" =>
          IF ValidWasher(ret.args.di, ret.args.do, ret.args.t)
          THEN ret.exc = "None" /\ ret.val # <<>>
          ELSE ret.exc = "ValueError" /\ ret.val = <<>>
    /\ washer # <<>> => ValidWasher(washer[1].di, washer[1].do, washer[1].t)

\* a joint with its two load attributes set and everything else as it was
WithLoads(j, axial, shear) ==
    [bolt |-> j.bolt, members |-> j.members, washers |-> j.washers,
     clearance_hole |-> j.clearance_hole, preload |-> j.preload,
     axial_load |-> <<axial>>, shear_load |-> <<shear>>]

\* C13: apply_loads(axial, shear) and remove_loads(axial, shear) lead to the
\* same joint: the two load attributes hold the values given, of either
\* sign, no exception is raised, and bolt, members, washers, clearance_hole
\* and preload are as before.
C13_LoadsSetAndFrameKept ==
    [][(ret'.op \in {"apply_loads", "remove_loads"})
        => (/\ ret'.exc = "None"
            /\ joint' = <<WithLoads(joint[1], ret'.args.axial_load,
                                    ret'.args.shear_load)>>
            /\ UNCHANGED <<threads, BOLT_SIZES, MATERIALS, id_counter, bolt, washer,
                           members>>)]_vars

C13_Witness_RemoveWithGivenLoads ==
    /\ joint # <<>>
    /\ ret.op = "remove_loads"
    /\ ret.args = [axial_load |-> -3, shear_load |-> 7]
    /\ joint[1].axial_load = <<-3>>
    /\ joint[1].shear_load = <<7>>
    /\ joint[1].preload = 5
    /\ Len(joint[1].members) = 2

\* C12: Members built by concurrent threads never share an identifier.
C12_ThreadedIdsUnique ==
    \A i, k \in 1..Len(members) : i # k => members[i].id # members[k].id

====
